---- MODULE Spec2Model ----
(***************************************************************************)
(* Rendezvous key-value server (Jipok/rendezvous), current main.go.        *)
(*                                                                         *)
(* Strings (keys, bodies, secrets, IP texts) are sequences of one-letter   *)
(* strings, so that len(), slicing and concatenation are computed as the   *)
(* code computes them.  The Store is kvMap (key -> pointer) plus heap      *)
(* (pointer -> Entry): handlers keep the *Entry they got from kvMap.Get    *)
(* and go on reading and writing its fields without any lock.              *)
(*                                                                         *)
(* The unsynchronised accesses are interleaved field by field; a torn      *)
(* read of a single field is not represented.  Not represented either:     *)
(* the root path and the empty key (main.go 100-115), a RemoteAddr that    *)
(* does not parse (125-127), and the persistence done by the store         *)
(* library.  The periodic goroutines run between requests, except under    *)
(* SpecRace (the sweep beside the handlers) and SpecLock (mu.Lock and      *)
(* mu.Unlock as steps of their own).  Under SpecOwner the sweep notes the  *)
(* owner secret of every entry it deletes.                                 *)
(*                                                                         *)
(* SpecSave is the mutex-guarded version of main.go 344-645 with the       *)
(* saveKVStore of persist.go; SpecBoot runs saveKVStore and loadKVStore    *)
(* of persist.go on the Entry of the current version, over a restart.      *)
(***************************************************************************)
EXTENDS Integers, Sequences, FiniteSets, TLC

VARIABLES
    now,        \* wall clock, in units of time.Now().Unix()
    kvMap,      \* kvMap: key -> pointer to its Entry
    heap,       \* the Entry objects, by pointer
    rateLimit,  \* rateLimit: ipKey -> available tokens (absent = no request yet)
    hs,         \* the in-flight request handlers (goroutines), by slot
    sweep,      \* the cleanupExpiredKeys goroutine
    last,       \* the response written by the step just taken, if any
    spent,      \* per ipKey, the cost of the requests accepted in this window
                \* and in the window before it
    ops,        \* number of requests still to come
    configured, \* the value of the flag maxRequests
    save,       \* the executions of saveKVStore, by caller
    disk,       \* the snapshot file and the temporary files
    mu,         \* the sync.RWMutex mu: its writer and its readers
    proc        \* the process: starting, up, exited or killed

vars == <<now, kvMap, heap, rateLimit, hs, sweep, last, spent, ops, configured, save, disk, mu, proc>>

----------------------------------------------------------------------------
(* Configuration flags (main.go 25-36), scaled down.                       *)

maxKeySize == 6
maxValueSize == 3
maxNumKV == 2
expireDuration == 1
maxRequests == 4

PostCost == 3
GetCost == 1

(* Bounds of the model.                                                    *)
MaxTime == 2
MaxOps == 2
MaxInFlight == 2
MaxRateOps == 3

Slots == 1..MaxInFlight
ObjIds == 1..(maxNumKV + 2 * MaxInFlight)

----------------------------------------------------------------------------
(* Texts.                                                                  *)

IpPrefix == <<"i", "p", "/">>
Slash == <<"/">>
Empty == <<>>

KeyA == <<"a">>
KeyIpB == <<"i", "p", "/", "b">>
KeyIp7B == <<"i", "p", "/", "7", "/", "b">>
KeyLong == <<"a", "a", "a", "a", "a", "a", "a">>

Ip7 == <<"7">>
Ip8 == <<"8">>
Ip10 == <<"1", "0">>
Ip6 == <<":", ":", "9">>
Junk == <<"?">>

SecretS == <<"s">>
SecretT == <<"t", "t">>
SecretHuge == <<"u", "u", "u", "u">>
BodyX == <<"x">>
BodyY == <<"y", "y">>
BodyZ == <<"z", "z", "z">>

HasPrefix(s, p) == Len(s) >= Len(p) /\ SubSeq(s, 1, Len(p)) = p

(* strings.HasPrefix(key, "ip/")                                           *)
HasIpPrefix(key) == HasPrefix(key, IpPrefix)

----------------------------------------------------------------------------
(* net.ParseIP and the net.IP predicates, on the addresses of the model:   *)
(* two public IPv4 hosts, a private IPv4 host (a reverse proxy), a public  *)
(* IPv6 host, and a text that is no address.                               *)

NilIP == [valid |-> FALSE, v4 |-> FALSE, private |-> FALSE, bytes |-> Empty]

ParseIP(text) ==
    CASE text = Ip7  -> [valid |-> TRUE, v4 |-> TRUE, private |-> FALSE, bytes |-> Ip7]
      [] text = Ip8  -> [valid |-> TRUE, v4 |-> TRUE, private |-> FALSE, bytes |-> Ip8]
      [] text = Ip10 -> [valid |-> TRUE, v4 |-> TRUE, private |-> TRUE, bytes |-> Ip10]
      [] text = Ip6  -> [valid |-> TRUE, v4 |-> FALSE, private |-> FALSE, bytes |-> Ip6]
      [] OTHER       -> NilIP

(* The first candidate of X-Forwarded-For that parses, or 0.               *)
RECURSIVE FirstValid(_, _)
FirstValid(xff, i) ==
    IF i > Len(xff) THEN 0
    ELSE IF ParseIP(xff[i]).valid THEN i
    ELSE FirstValid(xff, i + 1)

(* getRealIP: proxy headers are trusted only when the peer is private.     *)
getRealIP(remote, xff) ==
    LET remoteIP == ParseIP(remote)
        i == FirstValid(xff, 1)
    IN  IF remoteIP.private /\ xff # <<>> /\ i # 0
        THEN [parsedIP |-> ParseIP(xff[i]), stringIP |-> xff[i]]
        ELSE [parsedIP |-> remoteIP, stringIP |-> remote]

----------------------------------------------------------------------------
(* Entry (main.go 43-47) and the pieces of mainHandler/handleKeyRequest.   *)

Entry(value, secret, lastUpdate) ==
    [Value |-> value, Secret |-> secret, LastUpdate |-> lastUpdate]

FreeObj == Entry(Empty, Empty, -1)

(* uint8 of maxRequests, main.go 141                                        *)
Uint8(n) == n % 256

(* main.go 139-142: tokens of an IP, the default when it has no bucket     *)
AvailableTokens(rl, ipKey) ==
    IF ipKey \in DOMAIN rl THEN rl[ipKey] ELSE Uint8(configured)

Cost_PostAsGet(method) == GetCost

Cost_GetFree(method) == IF method = "POST" THEN PostCost ELSE 0

(* main.go 143-159: POST takes 3 tokens, every other method 1              *)
Cost(method) == IF method = "POST" THEN PostCost ELSE GetCost

RateLimited_OffByOne(tokens, method) == tokens <= Cost(method)

RateLimited_PostAsGet(tokens, method) == tokens < GetCost

(* main.go 145, 153: the request is refused                                *)
RateLimited(tokens, method) == tokens < Cost(method)

(* main.go 164-169: POST keys under ip/ get the client's IP text           *)
EffectiveKey(method, key, stringIP) ==
    IF Len(key) > 3 /\ SubSeq(key, 1, 3) = IpPrefix /\ method = "POST"
    THEN IpPrefix \o stringIP \o Slash \o SubSeq(key, 4, Len(key))
    ELSE key

(* main.go 118: the key length check of mainHandler                        *)
KeyTooLong(key) == Len(key) > maxKeySize

(* main.go 180-199: the secret alone, or the body, exceeds what is allowed *)
TooLarge(authSecret, body) ==
    \/ Len(authSecret) > maxValueSize
    \/ Len(body) > maxValueSize - Len(authSecret)

SecretMismatch_MissingAllowed(entrySecret, authSecret) ==
    entrySecret # Empty /\ authSecret # Empty /\ entrySecret # authSecret

(* main.go 204: the key is owned and the provided secret does not match    *)
SecretMismatch(entrySecret, authSecret) ==
    entrySecret # Empty /\ entrySecret # authSecret

(* main.go 209: the key is not yet owned and the client provides a secret  *)
ClaimsKey(entrySecret, authSecret) ==
    entrySecret = Empty /\ authSecret # Empty

CapacityReached_OffByOne(size) == size > maxNumKV

(* main.go 215: kvMap.Size() >= maxNumKV                                  *)
CapacityReached(size) == size >= maxNumKV

(* main.go 226-232: the payload of a successful POST                       *)
PostPayload(key, stringIP) == IF HasIpPrefix(key) THEN stringIP ELSE <<"O", "K">>

Expired_Inclusive(t, lastUpdate) == t - lastUpdate >= expireDuration

(* main.go 256: now.Sub(time.Unix(entry.LastUpdate, 0)) > expireDuration  *)
Expired(t, lastUpdate) == t - lastUpdate > expireDuration

----------------------------------------------------------------------------
(* The state of one handler and of the response it writes.                 *)

NoPrev == [status |-> "none", method |-> "", reqKey |-> Empty, key |-> Empty,
           ipKey |-> Empty, body |-> Empty, alone |-> FALSE, tokens |-> 0]

NoSolo == [alone |-> FALSE, pre |-> <<>>, size |-> 0, prev |-> NoPrev]

Idle == [pc |-> "idle", method |-> "", reqKey |-> Empty, key |-> Empty,
         ipKey |-> Empty, stringIP |-> Empty, authSecret |-> Empty,
         body |-> Empty, now |-> 0, entry |-> 0, tokens |-> 0, solo |-> NoSolo]

NoResp == [status |-> "none", payload |-> Empty, req |-> Idle]

(* The entry of a key as a sequence of zero or one Entry.                  *)
Lookup(km, hp, key) == IF key \in DOMAIN km THEN <<hp[km[key]]>> ELSE <<>>

Size(km) == Cardinality(DOMAIN km)

(* Entries nobody points to any more are collected.                        *)
GC(hp, km, hh) ==
    LET held == {km[k] : k \in DOMAIN km} \cup {hh[s].entry : s \in Slots}
    IN  [i \in ObjIds |-> IF i \in held THEN hp[i] ELSE FreeObj]

NewObj == CHOOSE i \in ObjIds : heap[i] = FreeObj /\ \A j \in 1..(i - 1) : heap[j] # FreeObj

(* A step of slot s ends the undisturbed run of every other request.       *)
Disturb(hh, s) ==
    [t \in Slots |-> IF t = s THEN hh[t] ELSE [hh[t] EXCEPT !.solo = NoSolo]]

AllIdle == (\A t \in Slots : hs[t].pc = "idle") /\ sweep.pc = "sleep"

PrevOf(resp) ==
    [status |-> resp.status, method |-> resp.req.method, reqKey |-> resp.req.reqKey,
     key |-> resp.req.key, ipKey |-> resp.req.ipKey, body |-> resp.req.body,
     alone |-> resp.req.solo.alone, tokens |-> resp.req.tokens]

Respond(h, status, payload) ==
    [status |-> status, payload |-> payload, req |-> [h EXCEPT !.pc = "done"]]

EmptyMap == [k \in {} |-> 0]

(* before: the entries the Store held when the pass started                *)
(* gone: the owner secret of the entry last deleted under a key, where it  *)
(* is noted (SweepDeleteNoted)                                             *)
Sleeping == [pc |-> "sleep", now |-> 0, todo |-> {}, key |-> Empty, expiredCount |-> 0,
             before |-> EmptyMap, gone |-> EmptyMap]

(* saveKVStore is called by periodicSave and by the signal handler         *)
Flushers == {"periodicSave", "shutdown"}

Resting == [pc |-> "rest", persistMap |-> EmptyMap, todo |-> {}, data |-> <<>>,
            seen |-> EmptyMap, failed |-> FALSE]

NoFile == [exists |-> FALSE, bytes |-> <<>>]

File(bytes) == [exists |-> TRUE, bytes |-> bytes]

NoDisk == [target |-> NoFile, temp |-> [f \in Flushers |-> NoFile]]

NoLock == [writer |-> "none", readers |-> {}]

(* written: the entries a flush had copied when it wrote the snapshot file *)
(* copied: the entries of the Store at the latest mu.RUnlock of a flush    *)
(* boots: 1 once the process has been started again; source: what the      *)
(* last start found                                                        *)
Up == [pc |-> "up", boots |-> 0, data |-> <<>>, loadTime |-> 0, written |-> EmptyMap,
       copied |-> EmptyMap, source |-> "none"]

(* The Store after startup: what kvStore.Open("store.db") loaded, entries  *)
(* that earlier requests wrote.  A store is a sequence of <<key, Entry>>.  *)
InitWith(stores, requests, limits) ==
    /\ now = 0
    /\ \E st \in stores :
        /\ kvMap = [k \in {st[i][1] : i \in DOMAIN st} |->
                        CHOOSE i \in DOMAIN st : st[i][1] = k]
        /\ heap = [i \in ObjIds |-> IF i \in DOMAIN st THEN st[i][2] ELSE FreeObj]
    /\ rateLimit = EmptyMap
    /\ hs = [s \in Slots |-> Idle]
    /\ sweep = Sleeping
    /\ last = NoResp
    /\ spent = EmptyMap
    /\ ops = requests
    /\ configured \in limits
    /\ save = [f \in Flushers |-> Resting]
    /\ disk = NoDisk
    /\ mu = NoLock
    /\ proc = Up

InitOn(stores) == InitWith(stores, MaxOps, {maxRequests})

----------------------------------------------------------------------------
(* The requests the clients send.                                          *)

Request(method, path, remote, xff, authSecret, body) ==
    [method |-> method, path |-> path, remote |-> remote, xff |-> xff,
     authSecret |-> authSecret, body |-> body]

KeyC == <<"c">>
KeyD == <<"d">>

(* direct clients 7 and 8 (8 with a forged header), a client behind the    *)
(* proxy 10, an IPv6 client                                                *)
Peer7 == <<Ip7, <<>>>>
Peer8 == <<Ip8, <<Ip7>>>>
Proxied7 == <<Ip10, <<Junk, Ip7>>>>
Peer6 == <<Ip6, <<>>>>

(* secret and body of the POSTs that pass the size check                   *)
Writes == {<<Empty, BodyZ>>, <<SecretS, BodyY>>, <<SecretT, BodyX>>}

Posts(paths, peers, writes) ==
    {Request("POST", p, c[1], c[2], w[1], w[2]) : p \in paths, c \in peers, w \in writes}

Gets(paths, peers) ==
    {Request("GET", p, c[1], c[2], Empty, Empty) : p \in paths, c \in peers}

(* requests that are turned down before they reach the Store, and a PUT    *)
Rejects ==
    {Request("GET", KeyLong, Ip7, <<>>, Empty, Empty),
     Request("GET", KeyA, Ip6, <<>>, Empty, Empty),
     Request("POST", KeyA, Ip7, <<>>, SecretHuge, BodyX),
     Request("POST", KeyA, Ip7, <<>>, SecretT, BodyY),
     Request("PUT", KeyA, Ip7, <<>>, Empty, Empty)}

StoreRequests ==
    Posts({KeyA}, {Peer7, Peer8}, Writes)
    \cup Posts({KeyC}, {Peer7}, {<<Empty, BodyZ>>})
    \cup Posts({KeyD}, {Peer8}, {<<Empty, BodyZ>>})
    \cup Gets({KeyA}, {Peer7})
    \cup Rejects

KeyIp8B == <<"i", "p", "/", "8", "/", "b">>
KeyIp87B == <<"i", "p", "/", "8", "/", "7", "/", "b">>

(* every client sends a body of its own                                    *)
IpRequests ==
    Posts({KeyA}, {Peer7}, {<<Empty, BodyZ>>, <<SecretT, BodyX>>})
    \cup Posts({IpPrefix, KeyIpB}, {Peer7}, {<<Empty, BodyZ>>})
    \cup Posts({IpPrefix, KeyIpB, KeyIp7B}, {Peer8}, {<<Empty, BodyY>>})
    \cup Posts({KeyIpB}, {Proxied7}, {<<Empty, BodyX>>})
    \cup Gets({KeyA, IpPrefix, KeyIpB, KeyIp7B, KeyIp8B}, {Peer7, Peer8})
    \cup Gets({KeyIp87B}, {Peer8})
    \cup Rejects

LowestIdle(s) == hs[s].pc = "idle" /\ \A t \in 1..(s - 1) : hs[t].pc # "idle"

NoSpent == [window |-> 0, earlier |-> 0]

Bump(f, k, n) ==
    LET was == IF k \in DOMAIN f THEN f[k] ELSE NoSpent
    IN  (k :> [was EXCEPT !.window = @ + n]) @@ f

(* mainHandler, and handleKeyRequest up to time.Now() (main.go 98-201):    *)
(* everything up to the first access to kvMap.  The only shared state it   *)
(* touches is rateLimit, under mu.                                         *)
mainHandler(s, r) ==
    LET ip == getRealIP(r.remote, r.xff)
        ipKey == ip.parsedIP.bytes
        tokens == AvailableTokens(rateLimit, ipKey)
        key == EffectiveKey(r.method, r.path, ip.stringIP)
        h == [pc |-> "get", method |-> r.method, reqKey |-> r.path, key |-> key,
              ipKey |-> ipKey, stringIP |-> ip.stringIP, authSecret |-> r.authSecret,
              body |-> r.body, now |-> now, entry |-> 0, tokens |-> tokens,
              solo |-> [alone |-> AllIdle, pre |-> Lookup(kvMap, heap, key),
                        size |-> Size(kvMap), prev |-> PrevOf(last)]]
        reject(status) ==
            /\ last' = Respond([h EXCEPT !.key = r.path], status, Empty)
            /\ hs' = Disturb(hs, s)
            /\ UNCHANGED <<rateLimit, spent>>
        charge ==
            /\ rateLimit' = (ipKey :> (tokens - Cost(r.method))) @@ rateLimit
            /\ spent' = Bump(spent, ipKey, Cost(r.method))
    IN  /\ LowestIdle(s)
        /\ ops > 0
        /\ ops' = ops - 1
        /\ UNCHANGED <<now, kvMap, heap, sweep, configured, save, disk, mu, proc>>
        /\ IF KeyTooLong(r.path) THEN reject("KeyTooLong")
           ELSE IF ~ip.parsedIP.v4 THEN reject("OnlyIPv4")
           ELSE IF RateLimited(tokens, r.method) THEN reject("RateLimited")
           ELSE /\ charge
                /\ IF r.method = "POST" /\ TooLarge(r.authSecret, r.body)
                   THEN /\ last' = Respond(h, "TooLarge", Empty)
                        /\ hs' = Disturb(hs, s)
                   ELSE IF r.method \notin {"POST", "GET"}
                   THEN /\ last' = Respond(h, "OK", Empty)
                        /\ hs' = Disturb(hs, s)
                   ELSE /\ last' = NoResp
                        /\ hs' = Disturb([hs EXCEPT ![s] = h], s)

(* A handler step that writes the response and ends the request.           *)
Finish(s, status, payload, km, hp) ==
    /\ last' = Respond(hs[s], status, payload)
    /\ hs' = Disturb([hs EXCEPT ![s] = Idle], s)
    /\ kvMap' = km
    /\ heap' = GC(hp, km, hs')

(* A handler step that goes on at pc, holding entry.                       *)
Goto(s, pc, entry, hp) ==
    /\ last' = NoResp
    /\ hs' = Disturb([hs EXCEPT ![s].pc = pc, ![s].entry = entry], s)
    /\ kvMap' = kvMap
    /\ heap' = hp

(* main.go 202: entry, exists := kvMap.Get(key)                            *)
PostGet(s) ==
    /\ hs[s].pc = "get" /\ hs[s].method = "POST"
    /\ IF hs[s].key \in DOMAIN kvMap
       THEN Goto(s, "check", kvMap[hs[s].key], heap)
       ELSE Goto(s, "size", 0, heap)
    /\ UNCHANGED <<now, rateLimit, sweep, spent, ops, configured, save, disk, mu, proc>>

(* main.go 204-207: the owner check                                        *)
PostCheck(s) ==
    /\ hs[s].pc = "check"
    /\ IF SecretMismatch(heap[hs[s].entry].Secret, hs[s].authSecret)
       THEN Finish(s, "SecretMismatch", Empty, kvMap, heap)
       ELSE Goto(s, "claim", hs[s].entry, heap)
    /\ UNCHANGED <<now, rateLimit, sweep, spent, ops, configured, save, disk, mu, proc>>

(* main.go 209: is the key to be claimed                                   *)
PostClaim(s) ==
    /\ hs[s].pc = "claim"
    /\ IF ClaimsKey(heap[hs[s].entry].Secret, hs[s].authSecret)
       THEN Goto(s, "setSecret", hs[s].entry, heap)
       ELSE Goto(s, "setValue", hs[s].entry, heap)
    /\ UNCHANGED <<now, rateLimit, sweep, spent, ops, configured, save, disk, mu, proc>>

(* main.go 210: entry.Secret = authSecret                                  *)
PostSetSecret(s) ==
    /\ hs[s].pc = "setSecret"
    /\ Goto(s, "setValue", hs[s].entry,
            [heap EXCEPT ![hs[s].entry].Secret = hs[s].authSecret])
    /\ UNCHANGED <<now, rateLimit, sweep, spent, ops, configured, save, disk, mu, proc>>

(* main.go 212: entry.Value = body                                         *)
PostSetValue(s) ==
    /\ hs[s].pc = "setValue"
    /\ Goto(s, "setTime", hs[s].entry,
            [heap EXCEPT ![hs[s].entry].Value = hs[s].body])
    /\ UNCHANGED <<now, rateLimit, sweep, spent, ops, configured, save, disk, mu, proc>>

(* main.go 213, 226-232: entry.LastUpdate = now.Unix(), and the response   *)
PostSetTime(s) ==
    /\ hs[s].pc = "setTime"
    /\ Finish(s, "OK", PostPayload(hs[s].key, hs[s].stringIP), kvMap,
              [heap EXCEPT ![hs[s].entry].LastUpdate = hs[s].now])
    /\ UNCHANGED <<now, rateLimit, sweep, spent, ops, configured, save, disk, mu, proc>>

(* main.go 215-218: the capacity check                                     *)
PostSize(s) ==
    /\ hs[s].pc = "size"
    /\ IF CapacityReached(Size(kvMap))
       THEN Finish(s, "CapacityExceeded", Empty, kvMap, heap)
       ELSE Goto(s, "insert", 0, heap)
    /\ UNCHANGED <<now, rateLimit, sweep, spent, ops, configured, save, disk, mu, proc>>

(* main.go 219-223: &Entry{Value: body, Secret: authSecret, LastUpdate: now.Unix()} *)
NewEntry_NoValue(body, authSecret, t) == Entry(Empty, authSecret, t)

NewEntry_NoSecret(body, authSecret, t) == Entry(body, Empty, t)

NewEntry(body, authSecret, t) == Entry(body, authSecret, t)

(* main.go 219-232: kvMap.SetAsync(key, &Entry{...}), and the response     *)
PostInsert(s) ==
    /\ hs[s].pc = "insert"
    /\ Finish(s, "OK", PostPayload(hs[s].key, hs[s].stringIP),
              (hs[s].key :> NewObj) @@ kvMap,
              [heap EXCEPT ![NewObj] = NewEntry(hs[s].body, hs[s].authSecret, hs[s].now)])
    /\ UNCHANGED <<now, rateLimit, sweep, spent, ops, configured, save, disk, mu, proc>>

(* main.go 235-239: entry, exists := kvMap.Get(key)                        *)
GetLookup(s) ==
    /\ hs[s].pc = "get" /\ hs[s].method = "GET"
    /\ IF hs[s].key \in DOMAIN kvMap
       THEN Goto(s, "read", kvMap[hs[s].key], heap)
       ELSE Finish(s, "NotFound", Empty, kvMap, heap)
    /\ UNCHANGED <<now, rateLimit, sweep, spent, ops, configured, save, disk, mu, proc>>

GetRead_Touch(s) ==
    /\ hs[s].pc = "read"
    /\ Finish(s, "OK", heap[hs[s].entry].Value, kvMap,
              [heap EXCEPT ![hs[s].entry].LastUpdate = now])
    /\ UNCHANGED <<now, rateLimit, sweep, spent, ops, configured, save, disk, mu, proc>>

(* main.go 242-245: value := entry.Value, and the response                 *)
GetRead(s) ==
    /\ hs[s].pc = "read"
    /\ Finish(s, "OK", heap[hs[s].entry].Value, kvMap, heap)
    /\ UNCHANGED <<now, rateLimit, sweep, spent, ops, configured, save, disk, mu, proc>>

handleKeyRequest(s) ==
    \/ PostGet(s) \/ PostCheck(s) \/ PostClaim(s) \/ PostSetSecret(s)
    \/ PostSetValue(s) \/ PostSetTime(s) \/ PostSize(s) \/ PostInsert(s)
    \/ GetLookup(s) \/ GetRead(s)

----------------------------------------------------------------------------
(* cleanupExpiredKeys (main.go 250-266).  kvMap.Range visits the keys one  *)
(* by one, in no particular order, while handlers run; the callback reads  *)
(* entry.LastUpdate and then calls kvMap.Delete(key).                      *)

DisturbAll == [t \in Slots |-> [hs[t] EXCEPT !.solo = NoSolo]]

(* main.go 252-255: a pass starts                                          *)
SweepBegin ==
    /\ sweep.pc = "sleep"
    /\ sweep' = [pc |-> "range", now |-> now, todo |-> DOMAIN kvMap,
                 key |-> Empty, expiredCount |-> 0,
                 before |-> [k \in DOMAIN kvMap |-> heap[kvMap[k]]],
                 gone |-> sweep.gone]
    /\ hs' = DisturbAll
    /\ last' = NoResp
    /\ UNCHANGED <<now, kvMap, heap, rateLimit, spent, ops, configured, save, disk, mu, proc>>

(* main.go 255-256: the callback is called for a key and tests its age     *)
SweepVisit(k) ==
    /\ sweep.pc = "range"
    /\ k \in sweep.todo
    /\ sweep' = IF k \in DOMAIN kvMap /\ Expired(sweep.now, heap[kvMap[k]].LastUpdate)
                THEN [sweep EXCEPT !.pc = "delete", !.key = k, !.todo = @ \ {k}]
                ELSE [sweep EXCEPT !.todo = @ \ {k}]
    /\ hs' = DisturbAll
    /\ last' = NoResp
    /\ UNCHANGED <<now, kvMap, heap, rateLimit, spent, ops, configured, save, disk, mu, proc>>

SweepDelete_CountOnly ==
    /\ sweep.pc = "delete"
    /\ sweep' = [sweep EXCEPT !.pc = "range", !.key = Empty, !.expiredCount = @ + 1]
    /\ hs' = DisturbAll
    /\ last' = NoResp
    /\ UNCHANGED <<now, kvMap, heap, rateLimit, spent, ops, configured, save, disk, mu, proc>>

(* main.go 257-258: kvMap.Delete(key); expiredCount++                      *)
SweepDeleteTo(gone) ==
    /\ sweep.pc = "delete"
    /\ kvMap' = [k \in DOMAIN kvMap \ {sweep.key} |-> kvMap[k]]
    /\ sweep' = [sweep EXCEPT !.pc = "range", !.key = Empty, !.expiredCount = @ + 1,
                              !.gone = gone]
    /\ hs' = DisturbAll
    /\ heap' = GC(heap, kvMap', hs')
    /\ last' = NoResp
    /\ UNCHANGED <<now, rateLimit, spent, ops, configured, save, disk, mu, proc>>

SweepDelete == SweepDeleteTo(sweep.gone)

(* the same, and the owner secret of the deleted entry is noted            *)
SweepDeleteNoted ==
    SweepDeleteTo(IF sweep.key \in DOMAIN kvMap
                  THEN (sweep.key :> heap[kvMap[sweep.key]].Secret) @@ sweep.gone
                  ELSE sweep.gone)

(* main.go 262-265, 252: the pass is over, the goroutine sleeps again      *)
SweepEnd ==
    /\ sweep.pc = "range"
    /\ sweep.todo = {}
    /\ sweep' = [Sleeping EXCEPT !.gone = sweep.gone]
    /\ hs' = DisturbAll
    /\ last' = NoResp
    /\ UNCHANGED <<now, kvMap, heap, rateLimit, spent, ops, configured, save, disk, mu, proc>>

cleanupExpiredKeys ==
    \/ SweepBegin
    \/ \E k \in sweep.todo : SweepVisit(k)
    \/ SweepDelete
    \/ SweepEnd

cleanupExpiredKeysNoted ==
    \/ SweepBegin
    \/ \E k \in sweep.todo : SweepVisit(k)
    \/ SweepDeleteNoted
    \/ SweepEnd

(* resetRateLimit (main.go 269-276): a fresh map every resetDuration       *)
resetRateLimit_KeepsBuckets ==
    /\ rateLimit # EmptyMap
    /\ spent # [ip \in DOMAIN spent |-> [window |-> 0, earlier |-> spent[ip].window]]
    /\ rateLimit' = rateLimit
    /\ spent' = [ip \in DOMAIN spent |-> [window |-> 0, earlier |-> spent[ip].window]]
    /\ last' = NoResp
    /\ UNCHANGED <<now, kvMap, heap, hs, sweep, ops, configured, save, disk, mu, proc>>

resetRateLimit ==
    /\ rateLimit # EmptyMap
    /\ rateLimit' = EmptyMap
    /\ spent' = [ip \in DOMAIN spent |-> [window |-> 0, earlier |-> spent[ip].window]]
    /\ last' = NoResp
    /\ UNCHANGED <<now, kvMap, heap, hs, sweep, ops, configured, save, disk, mu, proc>>

(* The clock advances.                                                     *)
Tick ==
    /\ now < MaxTime
    /\ now' = now + 1
    /\ last' = NoResp
    /\ UNCHANGED <<kvMap, heap, rateLimit, hs, sweep, spent, ops, configured, save, disk, mu, proc>>

HandlersIdle == \A t \in Slots : hs[t].pc = "idle"

NextOn(requests) ==
    \/ sweep.pc = "sleep" /\ \E s \in Slots, r \in requests : mainHandler(s, r)
    \/ \E s \in Slots : handleKeyRequest(s)
    \/ HandlersIdle /\ cleanupExpiredKeys
    \/ HandlersIdle /\ resetRateLimit
    \/ HandlersIdle /\ Tick

StoreInits ==
    {<<>>,
     <<<<KeyA, Entry(BodyZ, Empty, 0)>>>>,
     <<<<KeyA, Entry(BodyX, SecretT, 0)>>>>,
     <<<<KeyA, Entry(BodyZ, Empty, 0)>>, <<KeyC, Entry(BodyZ, Empty, 0)>>>>}

Init == InitOn(StoreInits)

Next == NextOn(StoreRequests)

Spec == Init /\ [][Next]_vars

(* The goroutines are scheduled again and again: the sweep wakes up every  *)
(* minute (main.go 252) and every handler runs to its end.                 *)
LiveRequests ==
    Posts({KeyA}, {Peer7}, {<<Empty, BodyZ>>, <<SecretS, BodyY>>})
    \cup Posts({KeyC}, {Peer8}, {<<Empty, BodyZ>>})
    \cup Gets({KeyA}, {Peer7})

NextLive == NextOn(LiveRequests)

SpecLive ==
    /\ Init /\ [][NextLive]_vars
    /\ WF_vars(HandlersIdle /\ cleanupExpiredKeys)
    /\ \A s \in Slots : WF_vars(handleKeyRequest(s))

(* Concurrent handlers on a shorter list of requests: writers of one key    *)
(* from two IPs, writers of a second and a third key, a reader, and the    *)
(* requests turned down before the Store.                                  *)
FewRequests ==
    LiveRequests
    \cup Posts({KeyA}, {Peer8}, {<<SecretT, BodyX>>})
    \cup Posts({KeyD}, {Peer8}, {<<Empty, BodyZ>>})
    \cup Rejects

NextFew == NextOn(FewRequests)

SpecFew == Init /\ [][NextFew]_vars

IpInits ==
    {<<>>,
     <<<<KeyIp7B, Entry(BodyZ, Empty, 0)>>>>}

InitIp == InitOn(IpInits)

(* The requests arrive one after the other.                                *)
NextIp ==
    \/ HandlersIdle /\ sweep.pc = "sleep" /\ \E s \in Slots, r \in IpRequests : mainHandler(s, r)
    \/ \E s \in Slots : handleKeyRequest(s)
    \/ HandlersIdle /\ cleanupExpiredKeys
    \/ HandlersIdle /\ resetRateLimit
    \/ HandlersIdle /\ Tick

SpecIp == InitIp /\ [][NextIp]_vars

(* The requests of two clients to one key, one after the other, over more  *)
(* than one window of the rate limiter.                                    *)
RateRequests ==
    Posts({KeyA}, {Peer7}, {<<Empty, BodyZ>>, <<SecretS, BodyY>>})
    \cup Gets({KeyA}, {Peer7, Peer8})

RateInits ==
    {<<>>,
     <<<<KeyA, Entry(BodyZ, Empty, 0)>>>>}

InitRate == InitWith(RateInits, MaxRateOps, {maxRequests})

NextRate ==
    \/ HandlersIdle /\ sweep.pc = "sleep" /\ \E s \in Slots, r \in RateRequests : mainHandler(s, r)
    \/ \E s \in Slots : handleKeyRequest(s)
    \/ HandlersIdle /\ cleanupExpiredKeys
    \/ HandlersIdle /\ resetRateLimit
    \/ HandlersIdle /\ Tick

SpecRate == InitRate /\ [][NextRate]_vars

(* The same, for several values of the flag maxRequests.                   *)
Limits == {maxRequests, 255, 256, 259}

InitWide == InitWith(RateInits, MaxRateOps, Limits)

SpecWide == InitWide /\ [][NextRate]_vars

----------------------------------------------------------------------------
(* The snapshot file (persist.go), written by the version of the server    *)
(* that keeps the Store in a map guarded by mu (main.go 344-645).  A file  *)
(* is a sequence of bytes; the bytes of a snapshot are the opening brace,  *)
(* one element for each key with its value, in the order of the keys, and  *)
(* the closing brace.                                                      *)

KeyOrder == <<KeyA, KeyC, KeyD>>

Brace(c) == [tag |-> c, key |-> Empty, value |-> Empty]

Member(key, value) == [tag |-> ":", key |-> key, value |-> value]

RECURSIVE Members(_, _)
Members(pm, i) ==
    IF i > Len(KeyOrder) THEN <<>>
    ELSE (IF KeyOrder[i] \in DOMAIN pm
          THEN <<Member(KeyOrder[i], pm[KeyOrder[i]])>>
          ELSE <<>>) \o Members(pm, i + 1)

(* persist.go 23: json.Marshal(persistMap)                                 *)
Marshal(pm) == <<Brace("{")>> \o Members(pm, 1) \o <<Brace("}")>>

(* persist.go 72-77: json.Unmarshal accepts the bytes                      *)
Unmarshals(bytes) ==
    /\ Len(bytes) >= 2
    /\ bytes[1] = Brace("{")
    /\ bytes[Len(bytes)] = Brace("}")
    /\ \A i \in 2..(Len(bytes) - 1) : bytes[i].tag = ":"

(* persist.go 73-74: the map json.Unmarshal builds; of two members with    *)
(* one key the later one stays                                             *)
Unmarshal(bytes) ==
    LET at == 2..(Len(bytes) - 1)
    IN  [k \in {bytes[i].key : i \in at} |->
            bytes[CHOOSE i \in at :
                    bytes[i].key = k /\ \A j \in at : bytes[j].key = k => j <= i].value]

Running == proc.pc = "up"

(* sync.RWMutex: RLock waits for the writer, Lock for everyone             *)
CanRLock == mu.writer = "none"

CanLock == mu.writer = "none" /\ mu.readers = {}

(* periodicSave goes back to its ticker (persist.go 95-98), the signal     *)
(* handler goes on to server.Shutdown (main.go 633-634)                    *)
Back(f) == IF f = "shutdown" THEN "stop" ELSE "rest"

SaveAll(f, rec, dk, m, p) ==
    /\ Running
    /\ save' = [save EXCEPT ![f] = rec]
    /\ disk' = dk
    /\ mu' = m
    /\ proc' = p
    /\ UNCHANGED <<now, kvMap, heap, rateLimit, hs, sweep, last, spent, ops, configured>>

SaveTo(f, rec, dk, m, written) == SaveAll(f, rec, dk, m, [proc EXCEPT !.written = written])

SaveStep(f, pc, dk) == SaveTo(f, [save[f] EXCEPT !.pc = pc], dk, mu, proc.written)

(* the log.Printf and return of an error path                              *)
SaveFail(f, dk) ==
    SaveTo(f, [Resting EXCEPT !.pc = Back(f), !.failed = TRUE], dk, mu, proc.written)

(* persist.go 15-17: mu.RLock(), persistMap := make(...)                   *)
SaveRLock(f) ==
    /\ save[f].pc = "rest"
    /\ CanRLock
    /\ SaveTo(f, [save[f] EXCEPT !.pc = "copy", !.persistMap = EmptyMap,
                                 !.todo = DOMAIN kvMap, !.data = <<>>],
              disk, [mu EXCEPT !.readers = @ \cup {f}], proc.written)

(* persist.go 18-20: one round of the loop over kvStore                    *)
SaveCopy(f) ==
    /\ save[f].pc = "copy"
    /\ \E key \in save[f].todo :
          SaveTo(f, [save[f] EXCEPT
                        !.persistMap = (key :> heap[kvMap[key]].Value) @@ @,
                        !.todo = @ \ {key}],
                 disk, mu, proc.written)

SaveRUnlock_Late(f) ==
    /\ save[f].pc = "copy"
    /\ save[f].todo = {}
    /\ SaveAll(f, [save[f] EXCEPT !.pc = "marshal",
                                  !.seen = [k \in DOMAIN kvMap |-> heap[kvMap[k]]]],
               disk, mu,
               [proc EXCEPT !.copied = [k \in DOMAIN kvMap |-> heap[kvMap[k]]]])

(* persist.go 21: mu.RUnlock(); seen: the Store at this instant            *)
SaveRUnlock(f) ==
    /\ save[f].pc = "copy"
    /\ save[f].todo = {}
    /\ SaveAll(f, [save[f] EXCEPT !.pc = "marshal",
                                  !.seen = [k \in DOMAIN kvMap |-> heap[kvMap[k]]]],
               disk, [mu EXCEPT !.readers = @ \ {f}],
               [proc EXCEPT !.copied = [k \in DOMAIN kvMap |-> heap[kvMap[k]]]])

(* persist.go 23-27: json.Marshal(persistMap), or its error                *)
SaveMarshal(f) ==
    /\ save[f].pc = "marshal"
    /\ \/ SaveTo(f, [save[f] EXCEPT !.pc = "create", !.data = Marshal(save[f].persistMap)],
                 disk, mu, proc.written)
       \/ SaveFail(f, disk)

(* persist.go 33-37: os.CreateTemp(dir, "store_temp_*.json"), or its error *)
SaveCreate(f) ==
    /\ save[f].pc = "create"
    /\ \/ SaveStep(f, "write", [disk EXCEPT !.temp[f] = File(<<>>)])
       \/ SaveFail(f, disk)

SaveWrite_InPlace(f) ==
    /\ save[f].pc = "write"
    /\ \/ \E n \in (Len(disk.temp[f].bytes) + 1)..Len(save[f].data) :
            SaveStep(f, IF n = Len(save[f].data) THEN "close" ELSE "write",
                     [disk EXCEPT !.temp[f] = File(SubSeq(save[f].data, 1, n)),
                                  !.target = File(SubSeq(save[f].data, 1, n))])
       \/ SaveStep(f, "remove", disk)

(* persist.go 40-45: tempFile.Write(data): the bytes reach the file in one *)
(* piece or in several, or the write fails                                 *)
SaveWrite(f) ==
    /\ save[f].pc = "write"
    /\ \/ \E n \in (Len(disk.temp[f].bytes) + 1)..Len(save[f].data) :
            SaveStep(f, IF n = Len(save[f].data) THEN "close" ELSE "write",
                     [disk EXCEPT !.temp[f] = File(SubSeq(save[f].data, 1, n))])
       \/ SaveStep(f, "remove", disk)

(* persist.go 48-52: tempFile.Close(), or its error                        *)
SaveClose(f) ==
    /\ save[f].pc = "close"
    /\ \/ SaveStep(f, "rename", disk)
       \/ SaveStep(f, "remove", disk)

(* persist.go 55-59: os.Rename(tempFile.Name(), persistenceFile), or its   *)
(* error                                                                   *)
SaveRename(f) ==
    /\ save[f].pc = "rename"
    /\ \/ SaveTo(f, [Resting EXCEPT !.pc = Back(f)],
                 [disk EXCEPT !.target = disk.temp[f], !.temp[f] = NoFile],
                 mu, save[f].seen)
       \/ SaveStep(f, "remove", disk)

SaveRemove_Target(f) ==
    /\ save[f].pc = "remove"
    /\ SaveFail(f, [disk EXCEPT !.target = NoFile])

(* persist.go 43, 50, 57: os.Remove(tempFile.Name()) and return            *)
SaveRemove(f) ==
    /\ save[f].pc = "remove"
    /\ SaveFail(f, [disk EXCEPT !.temp[f] = NoFile])

saveKVStore(f) ==
    \/ SaveRLock(f) \/ SaveCopy(f) \/ SaveRUnlock(f) \/ SaveMarshal(f)
    \/ SaveCreate(f) \/ SaveWrite(f) \/ SaveClose(f) \/ SaveRename(f) \/ SaveRemove(f)

OnlyProc(pc) ==
    /\ proc' = [proc EXCEPT !.pc = pc]
    /\ UNCHANGED <<now, kvMap, heap, rateLimit, hs, sweep, last, spent, ops, configured,
                   save, disk, mu>>

(* main.go 634-637: server.Shutdown(ctx) and os.Exit(0), after saveKVStore *)
(* has returned to the signal handler                                      *)
Exit ==
    /\ Running
    /\ save["shutdown"].pc = "stop"
    /\ OnlyProc("exited")

(* The process is killed: every file stays as it is.                       *)
Crash ==
    /\ Running
    /\ OnlyProc("killed")

(* main.go 520-537: the POST of that version, under mu.Lock                *)
LockedPost(key, body) ==
    /\ Running
    /\ CanLock
    /\ ops > 0
    /\ ops' = ops - 1
    /\ IF key \in DOMAIN kvMap
       THEN /\ heap' = [heap EXCEPT ![kvMap[key]].Value = body,
                                    ![kvMap[key]].LastUpdate = now]
            /\ kvMap' = kvMap
       ELSE IF Size(kvMap) >= maxNumKV
       THEN UNCHANGED <<kvMap, heap>>
       ELSE /\ kvMap' = (key :> NewObj) @@ kvMap
            /\ heap' = [heap EXCEPT ![NewObj] = Entry(body, Empty, now)]
    /\ UNCHANGED <<now, rateLimit, hs, sweep, last, spent, configured, save, disk, mu, proc>>

SaveInits ==
    {<<>>,
     <<<<KeyA, Entry(BodyZ, Empty, 0)>>>>}

(* the snapshot file an earlier run has left, if any                       *)
InitSave ==
    /\ now = 0
    /\ \E st \in SaveInits :
        /\ kvMap = [k \in {st[i][1] : i \in DOMAIN st} |->
                        CHOOSE i \in DOMAIN st : st[i][1] = k]
        /\ heap = [i \in ObjIds |-> IF i \in DOMAIN st THEN st[i][2] ELSE FreeObj]
    /\ rateLimit = EmptyMap
    /\ hs = [s \in Slots |-> Idle]
    /\ sweep = Sleeping
    /\ last = NoResp
    /\ spent = EmptyMap
    /\ ops = MaxOps
    /\ configured = maxRequests
    /\ save = [f \in Flushers |-> Resting]
    /\ \E t \in {NoFile, File(Marshal(EmptyMap))} :
            disk = [target |-> t, temp |-> [f \in Flushers |-> NoFile]]
    /\ mu = NoLock
    /\ proc = Up

NextSave ==
    \/ \E w \in {<<KeyA, BodyX>>, <<KeyC, BodyY>>} : LockedPost(w[1], w[2])
    \/ \E f \in Flushers : saveKVStore(f)
    \/ Exit
    \/ Crash

SpecSave == InitSave /\ [][NextSave]_vars

----------------------------------------------------------------------------
(* mainHandler and resetRateLimit with the steps of mu made visible        *)
(* (main.go 137-162, 272-274): a goroutine waits at mu.Lock until the      *)
(* mutex is free, and the Store is touched only after mu.Unlock.           *)

Unlock(m) == [m EXCEPT !.writer = "none"]

(* the goroutine that serves the request of slot s, as a holder of mu      *)
Goroutine(s) == ToString(s)

LimitedUnlock_Missing(m) == m

(* main.go 146, 154: mu.Unlock() before the request is refused             *)
LimitedUnlock(m) == Unlock(m)

(* main.go 98-135: the request arrives and is checked up to mu.Lock        *)
LockArrive(s, r) ==
    LET ip == getRealIP(r.remote, r.xff)
        h == [Idle EXCEPT !.pc = "lock", !.method = r.method, !.reqKey = r.path,
                          !.key = EffectiveKey(r.method, r.path, ip.stringIP),
                          !.ipKey = ip.parsedIP.bytes, !.stringIP = ip.stringIP,
                          !.authSecret = r.authSecret, !.body = r.body, !.now = now]
    IN  /\ LowestIdle(s)
        /\ ops > 0
        /\ ops' = ops - 1
        /\ IF KeyTooLong(r.path) \/ ~ip.parsedIP.v4
           THEN /\ last' = Respond([h EXCEPT !.key = r.path],
                                   IF KeyTooLong(r.path) THEN "KeyTooLong" ELSE "OnlyIPv4",
                                   Empty)
                /\ hs' = Disturb(hs, s)
           ELSE /\ last' = NoResp
                /\ hs' = Disturb([hs EXCEPT ![s] = h], s)
        /\ UNCHANGED <<now, kvMap, heap, rateLimit, sweep, spent, configured, save, disk,
                       mu, proc>>

(* main.go 137: mu.Lock() returns                                          *)
LockAcquire(s) ==
    /\ hs[s].pc = "lock"
    /\ CanLock
    /\ mu' = [mu EXCEPT !.writer = Goroutine(s)]
    /\ hs' = Disturb([hs EXCEPT ![s].pc = "limit"], s)
    /\ last' = NoResp
    /\ UNCHANGED <<now, kvMap, heap, rateLimit, sweep, spent, ops, configured, save, disk,
                   proc>>

(* main.go 139-162: the tokens are read, the request is refused or         *)
(* charged, and mu is unlocked on either way; then handleKeyRequest up to  *)
(* time.Now() (164-201)                                                    *)
LockLimit(s) ==
    LET h == hs[s]
        tokens == AvailableTokens(rateLimit, h.ipKey)
        seen == [h EXCEPT !.tokens = tokens]
    IN  /\ h.pc = "limit"
        /\ mu.writer = Goroutine(s)
        /\ IF RateLimited(tokens, h.method)
           THEN /\ mu' = LimitedUnlock(mu)
                /\ last' = Respond([seen EXCEPT !.key = h.reqKey], "RateLimited", Empty)
                /\ hs' = Disturb([hs EXCEPT ![s] = Idle], s)
                /\ UNCHANGED <<rateLimit, spent>>
           ELSE /\ rateLimit' = (h.ipKey :> (tokens - Cost(h.method))) @@ rateLimit
                /\ spent' = Bump(spent, h.ipKey, Cost(h.method))
                /\ mu' = Unlock(mu)
                /\ IF h.method = "POST" /\ TooLarge(h.authSecret, h.body)
                   THEN /\ last' = Respond(seen, "TooLarge", Empty)
                        /\ hs' = Disturb([hs EXCEPT ![s] = Idle], s)
                   ELSE IF h.method \notin {"POST", "GET"}
                   THEN /\ last' = Respond(seen, "OK", Empty)
                        /\ hs' = Disturb([hs EXCEPT ![s] = Idle], s)
                   ELSE /\ last' = NoResp
                        /\ hs' = Disturb([hs EXCEPT ![s] = [seen EXCEPT !.pc = "get"]], s)
        /\ UNCHANGED <<now, kvMap, heap, sweep, ops, configured, save, disk, proc>>

(* main.go 272: resetRateLimit has slept and takes mu                      *)
ResetLock ==
    /\ CanLock
    /\ mu' = [mu EXCEPT !.writer = "reset"]
    /\ last' = NoResp
    /\ UNCHANGED <<now, kvMap, heap, rateLimit, hs, sweep, spent, ops, configured, save,
                   disk, proc>>

(* main.go 273-274: the fresh map, mu.Unlock()                             *)
ResetUnlock ==
    /\ mu.writer = "reset"
    /\ rateLimit' = EmptyMap
    /\ spent' = [ip \in DOMAIN spent |-> [window |-> 0, earlier |-> spent[ip].window]]
    /\ mu' = Unlock(mu)
    /\ last' = NoResp
    /\ UNCHANGED <<now, kvMap, heap, hs, sweep, ops, configured, save, disk, proc>>

LockRequests ==
    Posts({KeyA}, {Peer7}, {<<SecretS, BodyY>>})
    \cup Posts({KeyA}, {Peer8}, {<<Empty, BodyZ>>})
    \cup Gets({KeyA}, {Peer7})

InitLock == InitWith({<<>>}, MaxOps, {maxRequests})

NextLock ==
    \/ \E s \in Slots, r \in LockRequests : LockArrive(s, r)
    \/ \E s \in Slots : LockAcquire(s)
    \/ \E s \in Slots : LockLimit(s)
    \/ \E s \in Slots : handleKeyRequest(s)
    \/ ResetLock
    \/ ResetUnlock

(* sync.Mutex is handed to a goroutine that waits for it when it is free   *)
(* again and again, and goroutines that can run do run                     *)
SpecLock ==
    /\ InitLock /\ [][NextLock]_vars
    /\ SF_vars(\E s \in Slots : LockAcquire(s))
    /\ WF_vars(\E s \in Slots : LockLimit(s) \/ handleKeyRequest(s))
    /\ WF_vars(ResetUnlock)

----------------------------------------------------------------------------
(* cleanupExpiredKeys as the goroutine it is (main.go 310): its steps      *)
(* interleave with those of the handlers.  The clock moves between them.   *)

RaceRequests ==
    Posts({KeyA}, {Peer7}, {<<Empty, BodyX>>})
    \cup Posts({KeyC}, {Peer8}, {<<SecretS, BodyY>>})
    \cup Gets({KeyA}, {Peer7})

RaceInits ==
    {<<<<KeyA, Entry(BodyZ, Empty, 0)>>>>,
     <<<<KeyA, Entry(BodyZ, Empty, 0)>>, <<KeyC, Entry(BodyZ, Empty, 0)>>>>}

InitRace == InitWith(RaceInits, MaxOps, {maxRequests})

NextRace ==
    \/ \E s \in Slots, r \in RaceRequests : mainHandler(s, r)
    \/ \E s \in Slots : handleKeyRequest(s)
    \/ cleanupExpiredKeys
    \/ AllIdle /\ Tick

SpecRace == InitRace /\ [][NextRace]_vars

----------------------------------------------------------------------------
(* A claimed key expires and is written again: the requests of two clients *)
(* one after the other, the sweep noting the owner of what it deletes.     *)

OwnerRequests ==
    Posts({KeyA}, {Peer7}, {<<SecretT, BodyX>>})
    \cup Posts({KeyA}, {Peer8}, {<<Empty, BodyZ>>, <<SecretS, BodyY>>})
    \cup Posts({KeyC, KeyD}, {Peer8}, {<<Empty, BodyZ>>})
    \cup Gets({KeyA}, {Peer7})

OwnerInits ==
    {<<<<KeyA, Entry(BodyX, SecretT, 0)>>>>,
     <<<<KeyA, Entry(BodyX, SecretT, 0)>>, <<KeyC, Entry(BodyZ, Empty, 0)>>>>}

InitOwner == InitWith(OwnerInits, MaxRateOps, {maxRequests})

NextOwner ==
    \/ HandlersIdle /\ sweep.pc = "sleep"
            /\ \E s \in Slots, r \in OwnerRequests : mainHandler(s, r)
    \/ \E s \in Slots : handleKeyRequest(s)
    \/ HandlersIdle /\ cleanupExpiredKeysNoted
    \/ HandlersIdle /\ resetRateLimit
    \/ HandlersIdle /\ Tick

SpecOwner == InitOwner /\ [][NextOwner]_vars

----------------------------------------------------------------------------
(* The restart: persist.go run on the Store of the current main.go, whose  *)
(* entries carry a Secret.  The requests, the sweep and the final flush    *)
(* take their turns one after the other.                                   *)

(* The process is started again: its memory is new, the files are there.   *)
Boot ==
    /\ proc.pc \in {"exited", "killed"}
    /\ kvMap' = EmptyMap
    /\ heap' = [i \in ObjIds |-> FreeObj]
    /\ rateLimit' = EmptyMap
    /\ hs' = [s \in Slots |-> Idle]
    /\ sweep' = Sleeping
    /\ last' = NoResp
    /\ spent' = EmptyMap
    /\ save' = [f \in Flushers |-> Resting]
    /\ mu' = NoLock
    /\ proc' = [proc EXCEPT !.pc = "open", !.boots = 1, !.data = <<>>,
                            !.copied = EmptyMap, !.source = "none"]
    /\ UNCHANGED <<now, ops, configured, disk>>

LoadTo(pc, data, source, km, hp) ==
    /\ proc' = [proc EXCEPT !.pc = pc, !.data = data, !.source = source, !.loadTime = now]
    /\ kvMap' = km
    /\ heap' = hp
    /\ UNCHANGED <<now, rateLimit, hs, sweep, last, spent, ops, configured, save, disk, mu>>

(* main.go 296-304: persist.Map and kvStore.Open; an error they return     *)
(* ends the process in log.Fatal.  What the store library does with a file *)
(* is not in the source: a file that is there may make Open fail.          *)
StoreOpen ==
    /\ proc.pc = "open"
    /\ \/ LoadTo("read", <<>>, "none", kvMap, heap)
       \/ disk.target.exists /\ LoadTo("failed", <<>>, "unreadable", kvMap, heap)

(* persist.go 65-71: os.ReadFile(persistenceFile); the file is missing, or *)
(* cannot be read, or its bytes are returned                               *)
LoadRead ==
    /\ proc.pc = "read"
    /\ IF ~disk.target.exists
       THEN LoadTo("up", <<>>, "missing", kvMap, heap)
       ELSE \/ LoadTo("up", <<>>, "unreadable", kvMap, heap)
            \/ LoadTo("unmarshal", disk.target.bytes, "none", kvMap, heap)

LoadedEntry_Epoch(value, t) == Entry(value, Empty, 0)

(* persist.go 82-85: &Entry{Value: value, LastUpdate: now}                 *)
LoadedEntry(value, t) == Entry(value, Empty, t)

(* the place of a key among the keys of a map, in the order of the keys    *)
Place(pm, key) ==
    Cardinality({i \in 1..Len(KeyOrder) :
                    KeyOrder[i] \in DOMAIN pm
                    /\ i <= (CHOOSE j \in 1..Len(KeyOrder) : KeyOrder[j] = key)})

(* persist.go 73-88: json.Unmarshal, then every member becomes an Entry    *)
LoadUnmarshal ==
    /\ proc.pc = "unmarshal"
    /\ IF ~Unmarshals(proc.data)
       THEN LoadTo("up", proc.data, "corrupt", kvMap, heap)
       ELSE LET persistMap == Unmarshal(proc.data)
            IN  LoadTo("up", proc.data, "snapshot",
                       [k \in DOMAIN persistMap |-> Place(persistMap, k)],
                       [i \in ObjIds |->
                           IF \E k \in DOMAIN persistMap : Place(persistMap, k) = i
                           THEN LoadedEntry(
                                  persistMap[CHOOSE k \in DOMAIN persistMap :
                                                Place(persistMap, k) = i], now)
                           ELSE FreeObj])

loadKVStore == LoadRead \/ LoadUnmarshal

BootRequests ==
    Posts({KeyA, KeyC}, {Peer7}, {<<SecretS, BodyY>>})
    \cup Posts({KeyA}, {Peer8}, {<<Empty, BodyZ>>})
    \cup Gets({KeyA}, {Peer7})

BootInits ==
    {<<>>,
     <<<<KeyA, Entry(BodyX, SecretT, 0)>>, <<KeyC, Entry(BodyZ, Empty, 0)>>>>}

(* the snapshot file at the start: none, one that a flush has written, or  *)
(* one that was cut short                                                  *)
BootFiles ==
    {NoFile,
     File(Marshal(KeyC :> BodyY)),
     File(<<Brace("{"), Member(KeyA, BodyY)>>)}

InitBoot ==
    /\ now = 0
    /\ \E st \in BootInits :
        /\ kvMap = [k \in {st[i][1] : i \in DOMAIN st} |->
                        CHOOSE i \in DOMAIN st : st[i][1] = k]
        /\ heap = [i \in ObjIds |-> IF i \in DOMAIN st THEN st[i][2] ELSE FreeObj]
    /\ rateLimit = EmptyMap
    /\ hs = [s \in Slots |-> Idle]
    /\ sweep = Sleeping
    /\ last = NoResp
    /\ spent = EmptyMap
    /\ ops = MaxOps
    /\ configured = maxRequests
    /\ save = [f \in Flushers |-> Resting]
    /\ \E t \in BootFiles :
            disk = [target |-> t, temp |-> [f \in Flushers |-> NoFile]]
    /\ mu = NoLock
    /\ proc = [Up EXCEPT !.written = KeyC :> Entry(BodyY, Empty, 0)]

Quiet == HandlersIdle /\ sweep.pc = "sleep"

(* neither a flush nor a load is under way                                 *)
Settled ==
    /\ save["shutdown"].pc \in {"rest", "stop"}
    /\ proc.pc \notin {"open", "read", "unmarshal"}

NextBoot ==
    \/ /\ Running /\ Quiet /\ save["shutdown"].pc = "rest"
       /\ \E s \in Slots, r \in BootRequests : mainHandler(s, r)
    \/ Running /\ \E s \in Slots : handleKeyRequest(s)
    \/ Running /\ HandlersIdle /\ save["shutdown"].pc = "rest" /\ cleanupExpiredKeys
    \/ Quiet /\ Settled /\ Tick
    \/ Quiet /\ saveKVStore("shutdown")
    \/ Quiet /\ Exit
    \/ Quiet /\ save["shutdown"].pc = "rest" /\ Crash
    \/ Boot
    \/ StoreOpen
    \/ loadKVStore

SpecBoot == InitBoot /\ [][NextBoot]_vars

----------------------------------------------------------------------------
(* What the claims speak of.                                               *)

Prev == last.req.solo.prev

(* A response was written by the step just taken, to a request that ran    *)
(* from its arrival to its response with no step of another request or of  *)
(* the sweep in between.                                                   *)
SoloDone(method) ==
    /\ last.status # "none"
    /\ last.req.method = method
    /\ last.req.solo.alone

(* The response just written is that of a GET that arrived right after the *)
(* success response of a POST, both undisturbed.                           *)
PostThenGet ==
    /\ SoloDone("GET")
    /\ Prev.status = "OK"
    /\ Prev.method = "POST"
    /\ Prev.alone

Turned == {"KeyTooLong", "OnlyIPv4", "RateLimited"}

StoreOutcomes == {"OK", "SecretMismatch", "CapacityExceeded"}

Pre == last.req.solo.pre

Denied(pre, authSecret) ==
    pre # <<>> /\ pre[1].Secret # Empty /\ pre[1].Secret # authSecret

(* C2: a write is denied exactly when the key has an entry with a          *)
(* non-empty ownerSecret that differs from the supplied secret (a missing  *)
(* secret included); a denied write gets SecretMismatch and leaves the     *)
(* entry of the key as it was.                                             *)
C2_WriteDecision ==
    (SoloDone("POST") /\ last.status \in StoreOutcomes)
        => /\ (last.status = "SecretMismatch") <=> Denied(Pre, last.req.authSecret)
           /\ Denied(Pre, last.req.authSecret)
                => Lookup(kvMap, heap, last.req.key) = Pre

(* a POST with another non-empty secret was just denied                    *)
C2_Witness ==
    /\ SoloDone("POST")
    /\ last.status = "SecretMismatch"
    /\ last.req.authSecret # Empty
    /\ Lookup(kvMap, heap, last.req.key) = Pre

(* C3: once the ownerSecret of a key's entry is non-empty, it neither      *)
(* changes nor is cleared for as long as the key stays in the Store.       *)
C3_SecretWriteOnce ==
    [][\A k \in DOMAIN kvMap :
         (heap[kvMap[k]].Secret # Empty /\ k \in DOMAIN kvMap')
            => heap'[kvMap'[k]].Secret = heap[kvMap[k]].Secret]_vars

(* C4: the Store never holds more than maxNumKV entries.                   *)
C4_SizeBound == Size(kvMap) <= maxNumKV

(* C5: a POST to a key that has an entry never ends in CapacityExceeded,   *)
(* whatever the size of the Store; a POST to a key without entry, when the *)
(* Store holds maxNumKV entries or more, ends in CapacityExceeded and adds *)
(* no entry.                                                               *)
C5_CapacityOnInsertOnly ==
    (SoloDone("POST") /\ last.status \in StoreOutcomes)
        => /\ Pre # <<>> => last.status # "CapacityExceeded"
           /\ (Pre = <<>> /\ last.req.solo.size >= maxNumKV)
                => /\ last.status = "CapacityExceeded"
                   /\ last.req.key \notin DOMAIN kvMap
                   /\ Size(kvMap) = last.req.solo.size

(* an entry was just updated in a full Store                               *)
C5_Witness ==
    /\ SoloDone("POST")
    /\ last.status = "OK"
    /\ Pre # <<>>
    /\ last.req.solo.size = maxNumKV
    /\ Lookup(kvMap, heap, last.req.key)[1].Value = last.req.body

(* C6: once the requests in flight have been answered, value and           *)
(* ownerSecret of every entry of the Store together are at most            *)
(* maxValueSize long.                                                      *)
C6_ValuePlusSecret ==
    HandlersIdle
        => \A k \in DOMAIN kvMap :
              Len(heap[kvMap[k]].Value) + Len(heap[kvMap[k]].Secret) <= maxValueSize

(* C7: every key of the Store is at most maxKeySize long.                  *)
C7_KeyLength == \A k \in DOMAIN kvMap : Len(k) <= maxKeySize

IpKey(text, remainder) == IpPrefix \o text \o Slash \o remainder

(* C8: a successful POST whose request key begins with ip/ wrote the key   *)
(* ip/<its client's IP text>/<remainder>, and a successful POST wrote a    *)
(* key beginning with ip/ only in that form.                               *)
C8_IpRewrite ==
    (last.status = "OK" /\ last.req.method = "POST")
        => /\ HasIpPrefix(last.req.reqKey)
                => last.req.key = IpKey(last.req.stringIP,
                                        SubSeq(last.req.reqKey, 4, Len(last.req.reqKey)))
           /\ HasIpPrefix(last.req.key)
                => HasPrefix(last.req.key, IpKey(last.req.stringIP, Empty))

(* The bodies the clients seen at an address send to ip/ keys.             *)
BodiesFrom(text) ==
    IF text = Ip7 THEN {BodyZ, BodyX} ELSE IF text = Ip8 THEN {BodyY} ELSE {}

(* C9: the value stored under ip/<A>/<remainder> was written by a client   *)
(* seen at A; a GET of a stored ip/<A>/<remainder>, from any client,       *)
(* returns the stored body; a GET of an ip/ key nobody wrote returns no    *)
(* body.                                                                   *)
C9_IpScopedKeys ==
    /\ \A k \in DOMAIN kvMap : \A a \in {Ip7, Ip8} :
          HasPrefix(k, IpKey(a, Empty)) => heap[kvMap[k]].Value \in BodiesFrom(a)
    /\ (SoloDone("GET") /\ HasIpPrefix(last.req.reqKey)
            /\ last.status \notin {"OnlyIPv4", "RateLimited"})
          => IF Pre = <<>> THEN last.status \in {"NotFound", "KeyTooLong"}
             ELSE last.status = "OK" /\ last.payload = Pre[1].Value

Spent(ipKey) == IF ipKey \in DOMAIN spent THEN spent[ipKey].window ELSE 0

Tokens(ipKey) == IF ipKey \in DOMAIN rateLimit THEN rateLimit[ipKey] ELSE maxRequests

CostOf(method) == IF method = "POST" THEN 3 ELSE 1

C11_WindowBudget ==
    /\ \A ip \in DOMAIN spent : spent[ip].window <= maxRequests
    /\ \A ip \in DOMAIN rateLimit :
          /\ rateLimit[ip] >= 0
          /\ Spent(ip) + rateLimit[ip] = maxRequests

(* two requests of one IP are in flight and have used up its budget        *)
C11_Witness ==
    /\ \A s \in Slots : hs[s].pc # "idle" /\ hs[s].ipKey = Ip7
    /\ Spent(Ip7) = maxRequests
    /\ Tokens(Ip7) = 0

(* what the IP of the request just answered had consumed in this window   *)
(* when the request arrived (requests one after the other)                 *)
ChargedNow ==
    IF last.status \in Turned THEN 0 ELSE CostOf(last.req.method)

SpentBefore == Spent(last.req.ipKey) - ChargedNow

Earlier(ipKey) == IF ipKey \in DOMAIN spent THEN spent[ipKey].earlier ELSE 0

(* C12: the first request of an IP after a reset finds the full budget of  *)
(* maxRequests, whatever the IP consumed in the window before, and is      *)
(* accepted if its cost is within maxRequests.                             *)
C12_FreshWindow ==
    (last.status \notin {"none", "KeyTooLong", "OnlyIPv4"} /\ SpentBefore = 0)
        => /\ last.req.tokens = maxRequests
           /\ CostOf(last.req.method) <= maxRequests => last.status # "RateLimited"

(* an IP that had used up its budget is served again after the reset       *)
C12_Witness ==
    /\ last.status = "OK"
    /\ last.req.method = "POST"
    /\ Earlier(last.req.ipKey) = maxRequests
    /\ last.req.tokens = maxRequests
    /\ Spent(last.req.ipKey) = 3

(* C13: for every value of maxRequests, an IP without bucket has exactly   *)
(* maxRequests tokens: its first request of a window finds maxRequests     *)
(* tokens, and a request is refused exactly when its cost plus what the IP *)
(* consumed in the window exceeds maxRequests.                             *)
C13_DefaultIsMaxRequests ==
    (last.status \notin {"none", "KeyTooLong", "OnlyIPv4"})
        => /\ SpentBefore = 0 => last.req.tokens = configured
           /\ (last.status = "RateLimited")
                <=> (SpentBefore + CostOf(last.req.method) > configured)

(* C14: a request that passed the rate limiter and ran undisturbed has     *)
(* taken its cost from the budget of its IP exactly once when it is        *)
(* answered, whatever the answer: a POST answered TooLarge, SecretMismatch, *)
(* CapacityExceeded or OK has taken exactly 3 tokens.                      *)
C14_ChargedOnce ==
    (last.status \notin ({"none"} \cup Turned) /\ last.req.solo.alone)
        => /\ Tokens(last.req.ipKey) = last.req.tokens - CostOf(last.req.method)
           /\ Spent(last.req.ipKey) + last.req.tokens
                = maxRequests + CostOf(last.req.method)
           /\ (last.req.method = "POST"
                 /\ last.status \in {"TooLarge", "SecretMismatch", "CapacityExceeded", "OK"})
                => Tokens(last.req.ipKey) = last.req.tokens - 3

(* a POST was refused for its secret and has paid its 3 tokens             *)
C14_Witness ==
    /\ SoloDone("POST")
    /\ last.status = "SecretMismatch"
    /\ last.req.tokens = maxRequests
    /\ Tokens(last.req.ipKey) = maxRequests - 3

(* C15: the step that refuses a request with RateLimited changes nothing   *)
(* of the Store, and every request that is in handleKeyRequest has been    *)
(* charged its cost from the budget of its IP.                             *)
C15_LimiterGatesStore ==
    /\ [](\A s \in Slots :
            hs[s].pc # "idle"
                => /\ hs[s].tokens >= CostOf(hs[s].method)
                   /\ Spent(hs[s].ipKey) >= CostOf(hs[s].method))
    /\ [][last'.status = "RateLimited" => (kvMap' = kvMap /\ heap' = heap)]_vars

(* a request is refused while another one is at work in the Store          *)
C15_Witness ==
    /\ last.status = "RateLimited"
    /\ \E s \in Slots : hs[s].pc \notin {"idle", "get"}
    /\ DOMAIN kvMap # {}

WritingPcs == {"setSecret", "setValue", "setTime", "insert"}

Changed(k) == k \notin DOMAIN kvMap' \/ heap'[kvMap'[k]] # heap[kvMap[k]]

PassOver == sweep.pc = "range" /\ sweep.todo = {}

(* the entries the pass found older than expireDuration                    *)
Aged == {k \in DOMAIN sweep.before :
            sweep.now - sweep.before[k].LastUpdate > expireDuration}

C18_NoExpiredRead ==
    (SoloDone("GET") /\ last.status \notin Turned
        /\ Pre # <<>> /\ now - Pre[1].LastUpdate > expireDuration)
        => last.status = "NotFound"

StoreKeys == {KeyA, KeyC}

TooOld(k) == k \in DOMAIN kvMap /\ now - heap[kvMap[k]].LastUpdate > expireDuration

(* C19: an entry older than expireDuration is eventually removed unless a  *)
(* POST refreshes it; a pass of the sweep leaves no entry that was older   *)
(* than expireDuration when the pass started; an entry leaves the Store    *)
(* only by the Delete of the sweep.                                        *)
C19_ExpiryIsLive ==
    /\ \A k \in StoreKeys : TooOld(k) ~> ~TooOld(k)
    /\ [](PassOver
            => \A k \in DOMAIN kvMap :
                  sweep.now - heap[kvMap[k]].LastUpdate <= expireDuration)
    /\ [][\A k \in DOMAIN kvMap \ DOMAIN kvMap' :
            sweep.pc = "delete" /\ sweep.key = k]_vars

(* a pass has emptied a Store of two entries that had grown too old        *)
C19_Witness ==
    /\ PassOver
    /\ sweep.expiredCount = 2
    /\ DOMAIN sweep.before = {KeyA, KeyC}
    /\ DOMAIN kvMap = {}

(* C20: at every instant the snapshot file is absent or holds a complete   *)
(* snapshot, also while flushes are under way, after their errors and      *)
(* after the process was killed; its content changes only to the complete  *)
(* bytes of a flush.                                                       *)
C20_SnapshotAtomic ==
    /\ [](disk.target.exists => Unmarshals(disk.target.bytes))
    /\ [][disk.target' # disk.target
            => \E f \in Flushers :
                  /\ save[f].pc = "rename"
                  /\ disk.target' = File(save[f].data)
                  /\ Unmarshals(save[f].data)]_vars

(* the process was killed in the middle of a write, after another flush    *)
(* had replaced the snapshot                                               *)
C20_Witness ==
    /\ ~Running
    /\ disk.target.exists /\ Len(disk.target.bytes) > 2
    /\ \E f \in Flushers :
          /\ disk.temp[f].exists
          /\ ~Unmarshals(disk.temp[f].bytes)
          /\ disk.temp[f].bytes # <<>>

(* a step of saveKVStore on one of its error paths                         *)
FailStep(f) ==
    \/ save[f].pc # "remove" /\ save'[f].pc = "remove"
    \/ save[f].pc \in {"marshal", "create", "remove"} /\ save'[f].pc = Back(f)

(* C21: a step of saveKVStore on an error path leaves the snapshot file,   *)
(* the Store and the process as they are; the snapshot file changes only   *)
(* in the rename of a flush that succeeds; a flush that has returned holds *)
(* no lock, so that requests and later flushes go on.                      *)
C21_FailedFlushNoOp ==
    /\ [][\A f \in Flushers :
            FailStep(f) => /\ disk'.target = disk.target
                           /\ kvMap' = kvMap /\ heap' = heap
                           /\ proc'.pc = "up"]_vars
    /\ [][disk'.target # disk.target
            => \E f \in Flushers : /\ save[f].pc = "rename"
                                  /\ save'[f].pc = Back(f)
                                  /\ ~save'[f].failed]_vars
    /\ [](\A f \in Flushers :
            save[f].pc \in {"rest", "stop"} => f \notin mu.readers /\ mu.writer = "none")

(* the last flush of this caller failed, the snapshot file still holds an  *)
(* earlier snapshot, and its next flush has come to the rename             *)
C21_Witness ==
    \E f \in Flushers :
        /\ save[f].failed
        /\ save[f].pc = "rename"
        /\ disk.target.exists
        /\ disk.target.bytes # save[f].data
        /\ DOMAIN kvMap # {}

StoreEntries == [k \in DOMAIN kvMap |-> heap[kvMap[k]]]

Triples(entries) == {<<k, entries[k].Value, entries[k].Secret>> : k \in DOMAIN entries}

(* loadKVStore ends, having read a snapshot that Unmarshal accepts         *)
Loaded == proc.pc = "unmarshal" /\ proc'.pc = "up" /\ proc'.source = "snapshot"

C23_LoadResetsLastUpdate ==
    /\ [][Loaded => /\ DOMAIN kvMap' = DOMAIN Unmarshal(proc.data)
                    /\ \A k \in DOMAIN kvMap' : heap'[kvMap'[k]].LastUpdate = now]_vars
    /\ [][(Running /\ proc' = proc /\ proc.boots > 0 /\ DOMAIN kvMap' # DOMAIN kvMap
            /\ DOMAIN kvMap' \subseteq DOMAIN kvMap)
            => sweep.now - proc.loadTime > expireDuration]_vars

(* an entry that was older than expireDuration counted from its last write *)
(* has been loaded and has outlived a pass of the sweep                    *)
C23_Witness ==
    /\ PassOver
    /\ proc.boots > 0 /\ proc.source = "snapshot"
    /\ \E k \in DOMAIN kvMap \cap DOMAIN proc.written :
          /\ sweep.now - proc.written[k].LastUpdate > expireDuration
          /\ heap[kvMap[k]].LastUpdate = proc.loadTime
          /\ proc.loadTime > proc.written[k].LastUpdate

(* C24: a start never fails; when the snapshot file is missing, cannot be  *)
(* read or is not accepted by Unmarshal, the process comes up with an      *)
(* empty Store.                                                            *)
C24_StartBestEffort ==
    /\ [](proc.pc # "failed")
    /\ [][(proc.pc \in {"read", "unmarshal"}
            /\ proc'.source \in {"missing", "unreadable", "corrupt"})
            => proc'.pc = "up" /\ kvMap' = EmptyMap]_vars

(* C25: when the process has exited after a signal, the flush of the       *)
(* signal handler has returned and no flush of periodicSave is left        *)
(* unfinished.                                                             *)
C25_ShutdownWaitsForFlushes ==
    proc.pc = "exited"
        => /\ save["shutdown"].pc = "stop"
           /\ save["periodicSave"].pc = "rest"

(* C26: once the requests in flight have been answered, every entry holds  *)
(* the body and the secret of one single write (a POST to an entry leaves  *)
(* its own secret there when it succeeds), never the body of one POST and  *)
(* the secret of another.                                                  *)
C26_WritesLinearized ==
    HandlersIdle
        => \A k \in DOMAIN kvMap :
              <<heap[kvMap[k]].Secret, heap[kvMap[k]].Value>> \in Writes

(* saveKVStore is past mu.RUnlock: json.Marshal and the file operations    *)
FilePcs == {"marshal", "create", "write", "close", "rename", "remove"}

Values(entries) == [k \in DOMAIN entries |-> entries[k].Value]

(* C27: while saveKVStore marshals, creates, writes, closes, renames or    *)
(* removes, it holds no lock, and mu is free whenever no flush is copying, *)
(* so that no request waits for the file; persistMap, and the bytes made   *)
(* of it, are the values of the Store at the instant of mu.RUnlock.        *)
C27_LockOnlyWhileCopying ==
    /\ \A f \in Flushers :
          save[f].pc # "copy" => f \notin mu.readers
    /\ (\A f \in Flushers : save[f].pc # "copy") => CanLock
    /\ \A f \in Flushers :
          save[f].pc \in FilePcs
              => /\ save[f].persistMap = Values(save[f].seen)
                 /\ save[f].pc # "marshal" => save[f].data = Marshal(Values(save[f].seen))

(* a flush is writing its file while a POST has already changed the Store  *)
(* it had copied                                                           *)
C27_Witness ==
    \E f \in Flushers :
        /\ save[f].pc = "write"
        /\ disk.temp[f].bytes # <<>>
        /\ DOMAIN save[f].seen # {}
        /\ Values(StoreEntries) # Values(save[f].seen)

(* the key of the request just answered was rewritten by mainHandler       *)
Rewritten ==
    /\ last.req.key # last.req.reqKey
    /\ last.req.key = IpKey(last.req.stringIP,
                            SubSeq(last.req.reqKey, 4, Len(last.req.reqKey)))

(* C28: the payload of a successful POST is the IP text of its client when *)
(* its key was rewritten to ip/<client IP>/<remainder>, and OK when it was *)
(* not.                                                                    *)
C28_PayloadIsIpIffRewritten ==
    (last.status = "OK" /\ last.req.method = "POST")
        => IF Rewritten
           THEN last.payload = last.req.stringIP
           ELSE last.payload = <<"O", "K">>

(* the pcs at which handleKeyRequest works on the Store                    *)
StorePcs ==
    {"get", "check", "claim", "setSecret", "setValue", "setTime", "size", "insert", "read"}

(* C29: mu is held only by a request between mu.Lock and mu.Unlock of      *)
(* mainHandler or by resetRateLimit, never by a request that works on the  *)
(* Store or has been answered; and again and again no request waits for    *)
(* mu or holds it, and mu is free: every wait ends, every holder gives it  *)
(* back.                                                                   *)
C29_LocksAreReleased ==
    /\ [](/\ mu.readers = {}
          /\ mu.writer \in {Goroutine(s) : s \in Slots} \cup {"reset", "none"}
          /\ \A s \in Slots : (mu.writer = Goroutine(s)) <=> (hs[s].pc = "limit")
          /\ \A s \in Slots : hs[s].pc \in StorePcs => mu.writer # Goroutine(s))
    /\ []<>(\A s \in Slots : hs[s].pc \notin {"lock", "limit"})
    /\ []<>(mu.writer = "none")

(* a request waits at mu.Lock while another request holds mu               *)
C29_Witness ==
    \E s, t \in Slots :
        hs[s].pc = "lock" /\ hs[t].pc = "limit" /\ mu.writer = Goroutine(t)

(* C30: while cleanupExpiredKeys runs beside the handlers, the key of a    *)
(* POST that has just been answered OK is in the Store, and a key leaves   *)
(* the Store only when the age of its entry exceeds expireDuration.        *)
C30_SweepKeepsLiveEntries ==
    /\ []((last.status = "OK" /\ last.req.method = "POST") => last.req.key \in DOMAIN kvMap)
    /\ [][\A k \in DOMAIN kvMap \ DOMAIN kvMap' :
              Expired(now, heap[kvMap[k]].LastUpdate)]_vars

(* the bodies that the requests presenting this secret carry               *)
OwnerBodies(secret) == {w[2] : w \in {v \in Writes : v[1] = secret}}

(* C31: every entry with an owner secret holds a body of a POST that       *)
(* presented that secret, the one moment aside at which the POST that      *)
(* claims the key has written its secret and not yet its body.             *)
C31_OwnerOnlyModification ==
    \A k \in DOMAIN kvMap :
        LET e == heap[kvMap[k]]
        IN  e.Secret # Empty
                => \/ e.Value \in OwnerBodies(e.Secret)
                   \/ \E t \in Slots : /\ hs[t].pc = "setValue"
                                       /\ hs[t].entry = kvMap[k]
                                       /\ hs[t].authSecret = e.Secret

(* no flush is under way, and the last flush of each caller succeeded      *)
FlushesDone == \A f \in Flushers : save[f].pc \in {"rest", "stop"} /\ ~save[f].failed

(* C32: once the flushes of periodicSave and of the signal handler have    *)
(* finished without error, the snapshot file holds the image of the copy   *)
(* that was taken from the Store last.                                     *)
C32_NoRollback ==
    FlushesDone
        => /\ proc.written = proc.copied
           /\ proc.copied # EmptyMap => disk.target = File(Marshal(Values(proc.copied)))

(* C33: when the process has exited after a signal and the flush of the    *)
(* signal handler met no error, the snapshot file holds the value of every *)
(* key of the Store, that is of every POST that was answered before.       *)
C33_NoAcknowledgedWriteLost ==
    (proc.pc = "exited" /\ ~save["shutdown"].failed)
        => disk.target = File(Marshal(Values(StoreEntries)))

(* A POST that reached the Store has just been answered, to a key the      *)
(* sweep has deleted before.                                               *)
PostToSweptKey ==
    /\ SoloDone("POST")
    /\ last.status \in StoreOutcomes
    /\ last.req.key \in DOMAIN sweep.gone

(* the sweep leaves the key it deletes absent, and the POST that finds the *)
(* key absent is refused for capacity alone and otherwise installs its     *)
(* body and its secret                                                     *)
SweptKeyIsFree ==
    /\ [][(sweep.pc = "delete" /\ sweep'.pc = "range") => sweep.key \notin DOMAIN kvMap']_vars
    /\ []((PostToSweptKey /\ Pre = <<>>)
            => /\ last.status = IF CapacityReached(last.req.solo.size)
                                THEN "CapacityExceeded" ELSE "OK"
               /\ last.status = "OK"
                    => Lookup(kvMap, heap, last.req.key)
                         = <<Entry(last.req.body, last.req.authSecret, last.req.now)>>)

(* the POST just answered presented the secret of the owner whose entry    *)
(* the sweep deleted, and the key has been written again since             *)
FormerOwnerReturns ==
    /\ PostToSweptKey
    /\ Pre # <<>>
    /\ sweep.gone[last.req.key] # Empty
    /\ last.req.authSecret = sweep.gone[last.req.key]

(* C34, as claimed: after the sweep has removed a claimed key the key is   *)
(* absent, the next POST to it succeeds with any secret or none unless the *)
(* Store is full and installs its secret, and the secret of the previous   *)
(* owner, unless it is the one installed, is then answered SecretMismatch. *)
C34_OwnershipEndsWithEntry ==
    /\ SweptKeyIsFree
    /\ []((FormerOwnerReturns /\ Pre[1].Secret # last.req.authSecret)
            => last.status = "SecretMismatch")

(* C34, amended: ... and the secret of the previous owner is answered      *)
(* SecretMismatch exactly when the key has since been given another,       *)
(* non-empty owner secret; on a key written again without secret it is     *)
(* accepted and becomes the owner secret again.                            *)
C34_OwnershipEndsUntilReclaimed ==
    /\ SweptKeyIsFree
    /\ [](FormerOwnerReturns
            => /\ (last.status = "SecretMismatch")
                    <=> Pre[1].Secret \notin {Empty, last.req.authSecret}
               /\ last.status = "OK"
                    => Lookup(kvMap, heap, last.req.key)[1].Secret = last.req.authSecret)

(* the previous owner has just claimed again the key that was written      *)
(* without secret after the sweep had deleted it                           *)
C34_Witness ==
    /\ FormerOwnerReturns
    /\ Pre[1].Secret = Empty
    /\ last.status = "OK"
    /\ Lookup(kvMap, heap, last.req.key)[1].Secret = last.req.authSecret

====
